---- MODULE Spec2Model ----
(***************************************************************************)
(* The gameplay screen of gravitas (latest revision of screen_gameplay.c,  *)
(* src/unnamed/part_000 lines 248-1093): the entity store, the level       *)
(* save/load, the per-frame entity step, the editor and the particle pool. *)
(*                                                                         *)
(* Numbers.  The C floats are modelled in fixed point, every operation     *)
(* rounding to the nearest unit as a float operation rounds to the nearest *)
(* representable value:                                                    *)
(*   lengths and positions   1 unit = 1 pixel                              *)
(*   velocities              1 unit = 1 pixel / second                     *)
(*   times (frame time, particle lifetime, timers)   1 unit = 1 ms         *)
(*   fractions (health, fireLeft, amountUsed, unit vectors, lerp factors)  *)
(*                           1 unit = 1/1000                               *)
(* Arrays are functions on 0..n-1, indexed as in the C code.               *)
(***************************************************************************)
EXTENDS Integers, Sequences, FiniteSets, TLC

\* ---------------------------------------------------------------- bounds
\* Frames explored per behaviour (frameID is an unbounded int in the code):
\* of an editing session, of a play session, of a spraying session.
MaxFrames == 6
PlayFrames == 5
ParticleFrames == 6
\* Entities the editor places up to in an editing session.
MaxEntities == 4
\* Slots of entities[].  The source sets 1000 (100 in the earlier
\* revisions); no function of the store reads the capacity, and the model
\* explores a store that fills within a few frames.
ENTITIES_CAPACITY == 6
\* Slots of the particle ring.  The source sets 1000; the ring arithmetic of
\* SpawnParticle is the same for every capacity, and the model explores a
\* ring that wraps within a few frames.
MAX_PARTICLES == 3
\* Notches the mouse wheel turns in one frame, either way (a float in the
\* code): more than twice the number of types.
MaxWheel == 13
\* Frames of a typing session, and the characters typed in one frame (the
\* queue GetCharPressed reads holds 16).
TextFrames == 9
MaxChars == 16

\* ------------------------------------------------------- program constants
ONE == 1000                 \* 1.0 of a fraction
SCREEN_SIZE == 900
player_radius == 18
player_grab_radius == 50
Player == 0
Obstacle == 1
Ground == 2
Extinguisher == 3
Fire == 4
HelpText == 5
MAX_TYPE == 5
RetardantParticle == 0
FireParticle == 1
TEXT_SIZE == 100            \* char text[100]
NULL == -1                  \* the null pointer, as an index into entities

\* ------------------------------------------------------------- arithmetic
Abs(a) == IF a < 0 THEN -a ELSE a

Sign(a) == IF a < 0 THEN -1 ELSE 1

\* a / b for b > 0, rounded to the nearest unit (halves away from zero).
RDiv(a, b) == Sign(a) * ((2 * Abs(a) + b) \div (2 * b))

\* C's integer % : the result has the sign of the dividend.
CRem(a, b) == Sign(a) * (Abs(a) % b)

\* a * f for a fraction f.
FMul(a, f) == RDiv(a * f, ONE)

RECURSIVE SqrtFrom(_, _)
SqrtFrom(n, r) == IF (r + 1) * (r + 1) > n THEN r ELSE SqrtFrom(n, r + 1)

RECURSIVE SqrtScaled(_)
\* floor(sqrt(n)), found four bits at a time so that the search stays short.
SqrtScaled(n) == IF n < 256 THEN SqrtFrom(n, 0)
                 ELSE SqrtFrom(n, 4 * SqrtScaled(n \div 16))

max(a, b) == IF a > b THEN a ELSE b

clamp(value, min, max_) ==
    IF value < min THEN min
    ELSE IF value > max_ THEN max_
    ELSE value

\* returns whichever has greater magnitude
absmax(a, b) == IF Abs(a) > Abs(b) THEN a ELSE b

\* raymath Lerp(start, end, amount), amount a fraction.
Lerp(start, end, amount) == start + FMul(end - start, amount)

\* ---------------------------------------------------------------- vectors
Vec(x, y) == [x |-> x, y |-> y]

Zero2 == Vec(0, 0)

Vector2Add(a, b) == Vec(a.x + b.x, a.y + b.y)

Vector2Subtract(a, b) == Vec(a.x - b.x, a.y - b.y)

\* v scaled by a whole number.
Vector2ScaleInt(v, k) == Vec(v.x * k, v.y * k)

\* v scaled by a fraction.
Vector2Scale(v, f) == Vec(FMul(v.x, f), FMul(v.y, f))

\* A vector of thousandths, in whole units.
FromFractions(v) == Vec(RDiv(v.x, ONE), RDiv(v.y, ONE))

LengthSqr(v) == v.x * v.x + v.y * v.y

\* |v| in sixteenths of a unit.
Length16(v) == SqrtScaled(256 * LengthSqr(v))

Vector2Length(v) == RDiv(Length16(v), 16)

Vector2Distance(a, b) == Vector2Length(Vector2Subtract(a, b))

\* |a - b| < r for a whole r, exactly (no rounding of the square root).
DistanceLess(a, b, r) == LengthSqr(Vector2Subtract(a, b)) < r * r

\* raymath Vector2Normalize: the zero vector is returned unchanged.  The
\* result is a vector of fractions.
Vector2Normalize(v) ==
    IF LengthSqr(v) = 0 THEN Zero2
    ELSE Vec(RDiv(v.x * 16 * ONE, Length16(v)), RDiv(v.y * 16 * ONE, Length16(v)))

\* raymath Vector2Lerp, amount a fraction.
Vector2Lerp(a, b, amount) == Vec(Lerp(a.x, b.x, amount), Lerp(a.y, b.y, amount))

\* raymath Vector2Reflect(v, normal) = v - 2 (v . normal) normal, normal a
\* vector of fractions.
Vector2Reflect(v, n) ==
    LET dot == RDiv(v.x * n.x + v.y * n.y, ONE)
    IN  Vec(v.x - FMul(2 * dot, n.x), v.y - FMul(2 * dot, n.y))

\* -------------------------------------------------------------- rectangles
Rect(x, y, w, h) == [x |-> x, y |-> y, width |-> w, height |-> h]

\* FixNegativeRect negating a negative width and height without moving x
\* and y.
C18_FixNegativeRectKeepsCorner(rect) ==
    [rect EXCEPT !.width = Abs(rect.width), !.height = Abs(rect.height)]

FixNegativeRect(rect) ==
    LET r1 == IF rect.width < 0
              THEN [rect EXCEPT !.x = rect.x + rect.width, !.width = -rect.width]
              ELSE rect
    IN  IF r1.height < 0
        THEN [r1 EXCEPT !.y = r1.y + r1.height, !.height = -r1.height]
        ELSE r1

\* raylib CheckCollisionPointRec (raylib 4.0-4.2: both edges inclusive).
CheckCollisionPointRec(point, rec) ==
    /\ point.x >= rec.x
    /\ point.x <= rec.x + rec.width
    /\ point.y >= rec.y
    /\ point.y <= rec.y + rec.height

\* unlike the raylib function for this this one works on negative width and height
RectHasPoint(rect, point) == CheckCollisionPointRec(point, FixNegativeRect(rect))

\* ------------------------------------------------------------------ state
VARIABLES
    entities,         \* Entity entities[]: the slots written so far, 0..n-1;
                      \* slots at or beyond entitiesLen hold stale copies
    entitiesLen,      \* int entitiesLen
    curNextEntityID,  \* ID curNextEntityID
    particles,        \* Particle particles[MAX_PARTICLES]
    curParticleIndex, \* int curParticleIndex
    editing,          \* bool editing
    currentType,      \* int currentType
    currentEntity,    \* Entity *currentEntity, as an index or NULL
    spawnPoint,       \* Vector2 spawnPoint
    cameraTarget,     \* camera.target
    frameID,          \* int frameID
    file,             \* the level file resources/saved.level
    crashed,          \* a NULL pointer was dereferenced: the run has ended
    input,            \* the input of the frame just processed
    probe             \* history: what the last frame did (see Probe0)

vars == <<entities, entitiesLen, curNextEntityID, particles, curParticleIndex,
          editing, currentType, currentEntity, spawnPoint, cameraTarget,
          frameID, file, crashed, input, probe>>

\* The program state as one value, threaded through the functions below.
World ==
    [entities |-> entities, entitiesLen |-> entitiesLen,
     curNextEntityID |-> curNextEntityID, particles |-> particles,
     curParticleIndex |-> curParticleIndex, editing |-> editing,
     currentType |-> currentType, currentEntity |-> currentEntity,
     spawnPoint |-> spawnPoint, cameraTarget |-> cameraTarget,
     frameID |-> frameID, file |-> file, crashed |-> crashed, probe |-> probe]

\* ---------------------------------------------------------------- records
\* Entity: id, type and the member of the union its type uses.
PlayerEntity(id, pos, vel, onGround, grabbedEntity, health) ==
    [id |-> id, type |-> Player, vel |-> vel, pos |-> pos, onGround |-> onGround,
     grabbedEntity |-> grabbedEntity, health |-> health]

\* Obstacle and Ground: a Rectangle.
RectEntity(id, type, rect) == [id |-> id, type |-> type, rect |-> rect]

FireEntity(id, rect, fireLeft, fireParticleTimer) ==
    [id |-> id, type |-> Fire, rect |-> rect, fireLeft |-> fireLeft,
     fireParticleTimer |-> fireParticleTimer]

ExtinguisherEntity(id, pos, vel, onGround, amountUsed) ==
    [id |-> id, type |-> Extinguisher, vel |-> vel, pos |-> pos,
     onGround |-> onGround, amountUsed |-> amountUsed]

\* HelpText: the text is kept as its length (TextLength), the characters
\* themselves decide nothing.
HelpTextEntity(id, pos, textLen) ==
    [id |-> id, type |-> HelpText, pos |-> pos, textLen |-> textLen]

IsRectType(t) == t = Ground \/ t = Obstacle \/ t = Fire

\* Particle; seq is history (the number of the SpawnParticle call that wrote
\* the slot, 0 for a slot never written); the colour is not modelled.
NewParticle(pos, vel, lifetime, max_lifetime, type) ==
    [pos |-> pos, vel |-> vel, lifetime |-> lifetime,
     max_lifetime |-> max_lifetime, type |-> type, seq |-> 0]

\* A zero-initialised slot of the static array.
ZeroParticle == NewParticle(Zero2, Zero2, 0, 0, RetardantParticle)

NoFile == [exists |-> FALSE, data |-> <<>>]

\* A pointer was dereferenced that was NULL.
Crash(w) == [w EXCEPT !.crashed = TRUE]

\* ------------------------------------------------------------ entity store
\* F(v), with v evaluated once.
Bind(v, F(_)) == CHOOSE r \in {F(x) : x \in {v}} : TRUE

ArrayLen(a) == Cardinality(DOMAIN a)

\* Array a (on 0..n-1) with slot i written, the array growing to hold it.
Store(a, i, e) ==
    [k \in 0..(max(ArrayLen(a), i + 1) - 1) |-> IF k = i THEN e ELSE a[k]]

\* SpawnParticle writing the slot without advancing curParticleIndex.
C6_SpawnParticleStaysPut(w0, p) ==
    Bind(w0, LAMBDA w :
        LET newParticleIndex == (w.curParticleIndex + 1) % MAX_PARTICLES
            count == w.probe.spawned + 1
        IN  [w EXCEPT !.particles[newParticleIndex] = [p EXCEPT !.seq = count],
                      !.probe.spawned = count,
                      !.probe.overwritten = w.particles[newParticleIndex]])

SpawnParticle(w0, p) ==
    Bind(w0, LAMBDA w :
        LET newParticleIndex == (w.curParticleIndex + 1) % MAX_PARTICLES
            count == w.probe.spawned + 1
        IN  [w EXCEPT !.particles[newParticleIndex] = [p EXCEPT !.seq = count],
                      !.curParticleIndex = newParticleIndex,
                      !.probe.spawned = count,
                      !.probe.overwritten = w.particles[newParticleIndex]])

\* GetEntityIndex scanning the whole array instead of the first
\* entitiesLen slots.
RECURSIVE C13_GetEntityIndexFromWholeArray(_, _, _)
C13_GetEntityIndexFromWholeArray(w, id, i) ==
    IF i >= ArrayLen(w.entities) THEN -1
    ELSE IF w.entities[i].id = id THEN i
    ELSE C13_GetEntityIndexFromWholeArray(w, id, i + 1)

RECURSIVE GetEntityIndexFrom(_, _, _)
GetEntityIndexFrom(w, id, i) ==
    IF i >= w.entitiesLen THEN -1
    ELSE IF w.entities[i].id = id THEN i
    ELSE GetEntityIndexFrom(w, id, i + 1)

GetEntityIndex(w, id) == GetEntityIndexFrom(w, id, 0)

\* null if entity doesn't exist
GetEntity(w, id) == GetEntityIndex(w, id)

RECURSIVE GetPlayerEntityFrom(_, _)
GetPlayerEntityFrom(w, i) ==
    IF i >= w.entitiesLen THEN NULL
    ELSE IF w.entities[i].type = Player THEN i
    ELSE GetPlayerEntityFrom(w, i + 1)

\* null if player not in entities
GetPlayerEntity(w) == GetPlayerEntityFrom(w, 0)

\* DeleteEntityIndex lowering entitiesLen without moving the later
\* entities down.
C14_DeleteEntityIndexDropsLast(w0, index) ==
    Bind(w0, LAMBDA w : [w EXCEPT !.entitiesLen = w.entitiesLen - 1])

DeleteEntityIndex(w0, index) ==
    Bind(w0, LAMBDA w :
        [w EXCEPT !.entities = [i \in DOMAIN w.entities |->
                                   IF i >= index /\ i < w.entitiesLen - 1
                                   THEN w.entities[i + 1] ELSE w.entities[i]],
                  !.entitiesLen = w.entitiesLen - 1])

DeleteEntity(w0, id) ==
    Bind(w0, LAMBDA w :
        Bind(GetEntityIndex(w, id), LAMBDA index :
            IF index # -1 THEN DeleteEntityIndex(w, index) ELSE w))

\* AddEntity without curNextEntityID += 1.
C1_AddEntityKeepsNextId(w0, e) ==
    Bind(w0, LAMBDA w :
        [w EXCEPT !.entities = Store(w.entities, w.entitiesLen,
                                     [e EXCEPT !.id = w.curNextEntityID]),
                  !.entitiesLen = w.entitiesLen + 1,
                  !.probe.handedOut = Append(@, w.curNextEntityID)])

\* The returned pointer is &entities[entitiesLen - 1] of the result.
AddEntity(w0, e) ==
    Bind(w0, LAMBDA w :
        [w EXCEPT !.entities = Store(w.entities, w.entitiesLen,
                                     [e EXCEPT !.id = w.curNextEntityID]),
                  !.curNextEntityID = w.curNextEntityID + 1,
                  !.entitiesLen = w.entitiesLen + 1,
                  !.probe.handedOut = Append(@, w.curNextEntityID)])

\* The live prefix entities[0..entitiesLen-1].
Live(w) == [i \in 0..(w.entitiesLen - 1) |-> w.entities[i]]

\* SaveEntities writing one record fewer than entitiesLen.
C9_SaveEntitiesDropsLast(w0) ==
    Bind(w0, LAMBDA w :
        [w EXCEPT !.file = [exists |-> TRUE,
                            data |-> [i \in 0..(w.entitiesLen - 2) |-> w.entities[i]]]])

SaveEntities(w0) ==
    Bind(w0, LAMBDA w : [w EXCEPT !.file = [exists |-> TRUE, data |-> Live(w)]])

\* The copy loop of LoadEntities taking the id read for curNextEntityID,
\* without the max.
C2_LoadRecordWithoutMax(w0, e, i) ==
    Bind(w0, LAMBDA w :
        [w EXCEPT !.entities = Store(w.entities, i, e),
                  !.curNextEntityID = e.id])

\* One pass of the copy loop of LoadEntities.
LoadRecord(w0, e, i) ==
    Bind(w0, LAMBDA w :
        [w EXCEPT !.entities = Store(w.entities, i, e),
                  !.curNextEntityID = max(w.curNextEntityID, e.id)])

RECURSIVE LoadLoop(_, _, _, _)
\* The copy loop of LoadEntities from record i on.
LoadLoop(w, data, n, i) ==
    IF i >= n THEN w ELSE LoadLoop(LoadRecord(w, data[i], i), data, n, i + 1)

\* LoadEntities after the copy loop, n records having been read.
LoadFinish(w0, n, setSpawnPoint) ==
    Bind([w0 EXCEPT !.curNextEntityID = @ + 1, !.entitiesLen = n], LAMBDA w :
        Bind(GetPlayerEntity(w), LAMBDA p :
            IF p = NULL THEN Crash(w)
            ELSE LET sp == IF setSpawnPoint THEN w.entities[p].pos ELSE w.spawnPoint
                 IN  [w EXCEPT !.spawnPoint = sp,
                               !.entities[p].pos = sp,
                               !.cameraTarget = sp]))

\* LoadFileData leaves bytesRead 0 when the file cannot be read.
LoadEntities(w0, setSpawnPoint) ==
    Bind(w0, LAMBDA w :
        LET n == IF w.file.exists THEN ArrayLen(w.file.data) ELSE 0
        IN  LoadFinish(LoadLoop(w, w.file.data, n, 0), n, setSpawnPoint))

\* ------------------------------------------------------------------ input
\* What raylib reports during one frame.  rnd holds the frame's random
\* draws: cosine and sine of the spray angle (GetRandomValue(-50, 50)/100
\* radians) and of the ember angle (RandFloat(-2 PI, 2 PI)), and the
\* fraction rand()/RAND_MAX that places an ember in its fire.
NoRnd == [sprayCos |-> ONE, spraySin |-> 0, emberCos |-> ONE, emberSin |-> 0,
          frac |-> 500]

NoInput ==
    [tab |-> FALSE, f1 |-> FALSE, f2 |-> FALSE, r |-> FALSE, wheel |-> 0,
     lmbPressed |-> FALSE, lmbDown |-> FALSE, lmbReleased |-> FALSE,
     rmbPressed |-> FALSE, rmbDown |-> FALSE, mmbDown |-> FALSE,
     keyE |-> FALSE, enter |-> FALSE, chars |-> 0,
     mouse |-> Zero2, move |-> Zero2, dt |-> 16, rnd |-> NoRnd]

cameraOffset == Vec(SCREEN_SIZE \div 2, SCREEN_SIZE \div 2)

WorldMousePos(w, in) ==
    Vector2Add(in.mouse, Vector2Subtract(w.cameraTarget, cameraOffset))

\* raymath Vector2Rotate by the angle whose cosine and sine are c and s.
Vector2Rotate(v, c, s) ==
    Vec(FMul(v.x, c) - FMul(v.y, s), FMul(v.x, s) + FMul(v.y, c))

\* a + v * dt, v per second and dt in ms.
Advance(a, v, dt) == Vec(a.x + RDiv(v.x * dt, 1000), a.y + RDiv(v.y * dt, 1000))

\* ---------------------------------------------------------------- physics
\* The closest point of the (fixed) obstacle rectangle to position: computed
\* about the centre as in the code, in half pixels, where the halving of
\* width and height is exact.
ClosestPointOnObstacle(position, obstacle) ==
    LET cx2 == 2 * obstacle.x + obstacle.width
        cy2 == 2 * obstacle.y + obstacle.height
        fx2 == clamp(2 * position.x - cx2, -obstacle.width, obstacle.width)
        fy2 == clamp(2 * position.y - cy2, -obstacle.height, obstacle.height)
    IN  Vec((fx2 + cx2) \div 2, (fy2 + cy2) \div 2)

\* The normal of the push away from the obstacle.
PushNormal(position, obstacle) ==
    Vector2Normalize(Vector2Subtract(position, ClosestPointOnObstacle(position, obstacle)))

Bounced(position, obstacle) ==
    DistanceLess(ClosestPointOnObstacle(position, obstacle), position, player_radius)

CorrectPosition(position, obstacle) ==
    IF Bounced(position, obstacle)
    THEN Vector2Add(ClosestPointOnObstacle(position, obstacle),
                    FromFractions(Vector2ScaleInt(PushNormal(position, obstacle),
                                                  player_radius)))
    ELSE position

\* The push of GlideAndBounce out of one (fixed) obstacle.
Bounce(k0, obstacle, bounceFactor) ==
    Bind(k0, LAMBDA k :
        IF Bounced(k.pos, obstacle)
        THEN [k EXCEPT !.pos = CorrectPosition(k.pos, obstacle),
                       !.vel = Vector2Scale(
                                   Vector2Reflect(k.vel, PushNormal(k.pos, obstacle)),
                                   bounceFactor)]
        ELSE k)

\* One pass of the loop of GlideAndBounce, on entity e.
GlideOne(k0, e, bounceFactor) ==
    Bind(k0, LAMBDA k :
        IF e.type = Obstacle THEN Bounce(k, FixNegativeRect(e.rect), bounceFactor)
        ELSE IF e.type = Ground /\ RectHasPoint(e.rect, k.pos)
        THEN [k EXCEPT !.onGround = TRUE]
        ELSE k)

RECURSIVE GlideLoop(_, _, _, _)
\* The loop of GlideAndBounce from entity i on.
GlideLoop(w, k, bounceFactor, i) ==
    IF i >= w.entitiesLen THEN k
    ELSE GlideLoop(w, GlideOne(k, w.entities[i], bounceFactor), bounceFactor, i + 1)

\* GlideAndBounce without k.onGround = false at its start.
C17_GlideAndBounceKeepsFlag(w, k, bounceFactor) ==
    GlideLoop(w, k, bounceFactor, 0)

\* k is a KinematicInfo [vel, pos, onGround]; bounceFactor a fraction.
GlideAndBounce(w, k, bounceFactor) ==
    GlideLoop(w, [k EXCEPT !.onGround = FALSE], bounceFactor, 0)

Kinematic(e) == [vel |-> e.vel, pos |-> e.pos, onGround |-> e.onGround]

WithKinematic(e, k) ==
    [e EXCEPT !.vel = k.vel, !.pos = k.pos, !.onGround = k.onGround]

\* ------------------------------------------------------------ entity step
RECURSIVE FirstFireAt(_, _, _)
\* The first Fire whose rectangle holds pos, from index i on, or NULL.
FirstFireAt(w, pos, i) ==
    IF i >= w.entitiesLen THEN NULL
    ELSE IF w.entities[i].type = Fire /\ RectHasPoint(w.entities[i].rect, pos) THEN i
    ELSE FirstFireAt(w, pos, i + 1)

RECURSIVE FirstExtinguisherNear(_, _, _)
\* The first Extinguisher within the grab radius of pos, or NULL.
FirstExtinguisherNear(w, pos, i) ==
    IF i >= w.entitiesLen THEN NULL
    ELSE IF /\ w.entities[i].type = Extinguisher
            /\ DistanceLess(pos, w.entities[i].pos, player_grab_radius) THEN i
    ELSE FirstExtinguisherNear(w, pos, i + 1)

\* The change of health in one frame.
HealthDelta(inFire, fireLeft, onGround, dt) ==
    IF inFire THEN -Lerp(2 * dt, RDiv(2 * dt, 5), ONE - fireLeft)
    ELSE IF ~onGround THEN -RDiv(dt, 3)
    ELSE 2 * dt

\* The health of ProcessEntity left unclamped.
C3_HealthUnclamped(health) == health

\* e->player.health = clamp(e->player.health, 0.0f, 1.0f)
HealthClamp(health) == clamp(health, 0, ONE)

\* The player e after the glide gave k: velocity, position and health.
PlayerAfterGlide(w, e, k0, in) ==
    Bind(k0, LAMBDA k :
        LET movement == Vector2Normalize(in.move)
            vel      == IF k.onGround
                        THEN Vector2Lerp(k.vel,
                                         FromFractions(Vector2ScaleInt(movement, 400)),
                                         in.dt * 9)
                        ELSE k.vel
            pos      == Advance(k.pos, vel, in.dt)
            fire     == FirstFireAt(w, pos, 0)
            inFire   == fire # NULL
            fireLeft == IF inFire THEN w.entities[fire].fireLeft ELSE 0
        IN  [e EXCEPT !.vel = vel, !.pos = pos, !.onGround = k.onGround,
                      !.health = HealthClamp(e.health +
                                     HealthDelta(inFire, fireLeft, k.onGround, in.dt))])

\* The (fixed) rectangles of the Obstacle entities in the store.
Obstacles(w) ==
    {FixNegativeRect(w.entities[j].rect) :
        j \in {j \in 0..(w.entitiesLen - 1) : w.entities[j].type = Obstacle}}

\* case Player, up to the clamp of health; the history keeps what
\* GlideAndBounce returned.
PlayerMove(w0, i, in) ==
    Bind(w0, LAMBDA w :
        Bind(GlideAndBounce(w, Kinematic(w.entities[i]), ONE), LAMBDA k :
            [w EXCEPT !.cameraTarget =
                          Vector2Lerp(w.cameraTarget, w.entities[i].pos, in.dt * 5),
                      !.spawnPoint = IF ~w.entities[i].onGround /\ k.onGround
                                     THEN k.pos ELSE w.spawnPoint,
                      !.entities[i] = PlayerAfterGlide(w, w.entities[i], k, in),
                      !.probe.glide = [did |-> TRUE, pos |-> k.pos,
                                       obstacles |-> Obstacles(w),
                                       from |-> Kinematic(w.entities[i]),
                                       onGround |-> k.onGround,
                                       store |-> Live(w)]]))

\* Carrying extinguisher g, and throwing it on a right click.
PlayerCarry(w0, i, g, in) ==
    Bind([w0 EXCEPT !.entities[g].pos = w0.entities[i].pos], LAMBDA w :
        LET e == w.entities[i]
            extraVelocity ==
                FromFractions(Vector2ScaleInt(
                    Vector2Normalize(Vector2Subtract(WorldMousePos(w, in), e.pos)), 250))
        IN  IF in.rmbPressed
            THEN [w EXCEPT !.entities[g].vel = Vector2Add(e.vel, extraVelocity),
                           !.entities[i].vel =
                               Vector2Add(e.vel, Vector2ScaleInt(extraVelocity, -2)),
                           !.entities[i].grabbedEntity = -1]
            ELSE w)

\* case Player, the grab / carry / throw part.
PlayerGrab(w0, i, in) ==
    Bind(w0, LAMBDA w :
        IF w.entities[i].grabbedEntity = -1
        THEN IF in.rmbPressed
             THEN Bind(FirstExtinguisherNear(w, w.entities[i].pos, 0), LAMBDA x :
                      IF x # NULL
                      THEN [w EXCEPT !.entities[i].grabbedEntity = w.entities[x].id]
                      ELSE w)
             ELSE w
        ELSE Bind(GetEntity(w, w.entities[i].grabbedEntity), LAMBDA g :
                 IF g = NULL THEN Crash(w) ELSE PlayerCarry(w, i, g, in)))

\* case Extinguisher, not held.
ExtinguisherGlide(e, k0, in) ==
    Bind(k0, LAMBDA k :
        LET vel == IF k.onGround THEN Vector2Lerp(k.vel, Zero2, in.dt * 4) ELSE k.vel
        IN  WithKinematic(e, [k EXCEPT !.vel = vel, !.pos = Advance(k.pos, vel, in.dt)]))

\* case Extinguisher, held by player p with the left button down.
ExtinguisherSpray(w, i, p, in) ==
    LET e == w.entities[i]
        toMouse == Vector2Subtract(WorldMousePos(w, in), e.pos)
        solidVelocity == FromFractions(Vector2ScaleInt(Vector2Normalize(toMouse), 200))
    IN  SpawnParticle(
            [w EXCEPT !.entities[i].amountUsed = clamp(e.amountUsed + RDiv(in.dt, 2), 0, ONE),
                      !.entities[p].vel =
                          Vector2Add(w.entities[p].vel, Vector2Scale(toMouse, -(in.dt * 3)))],
            NewParticle(e.pos,
                        Vector2Rotate(solidVelocity, in.rnd.sprayCos, in.rnd.spraySin),
                        3000, 3000, RetardantParticle))

\* case Extinguisher removing the extinguisher from the store once it has
\* sprayed.
C11_ExtinguisherStepRemovesUsed(w0, i, in) ==
    Bind(w0, LAMBDA w :
        Bind(GetPlayerEntity(w), LAMBDA p :
            IF p = NULL THEN Crash(w)
            ELSE IF w.entities[p].grabbedEntity # w.entities[i].id
            THEN [w EXCEPT !.entities[i] =
                     ExtinguisherGlide(w.entities[i],
                         GlideAndBounce(w, Kinematic(w.entities[i]), 500), in)]
            ELSE IF in.lmbDown /\ w.entities[i].amountUsed < 990
            THEN DeleteEntityIndex(ExtinguisherSpray(w, i, p, in), i)
            ELSE w))

ExtinguisherStep(w0, i, in) ==
    Bind(w0, LAMBDA w :
        Bind(GetPlayerEntity(w), LAMBDA p :
            IF p = NULL THEN Crash(w)
            ELSE IF w.entities[p].grabbedEntity # w.entities[i].id
            THEN [w EXCEPT !.entities[i] =
                     ExtinguisherGlide(w.entities[i],
                         GlideAndBounce(w, Kinematic(w.entities[i]), 500), in)]
            ELSE IF in.lmbDown /\ w.entities[i].amountUsed < 990
            THEN ExtinguisherSpray(w, i, p, in)
            ELSE w))

\* The ember a fire spawns.
Ember(e, in) ==
    NewParticle(Vec(e.rect.x + FMul(e.rect.width, in.rnd.frac),
                    e.rect.y + FMul(e.rect.height, in.rnd.frac)),
                Vector2Rotate(Vec(20, 0), in.rnd.emberCos, in.rnd.emberSin),
                4000, 10000, FireParticle)

\* The Fire step feeding the fire: fireLeft raised by 0.001 each frame
\* before the clamp.
C24_FireStepRekindles(w0, i, in) ==
    Bind([w0 EXCEPT !.entities[i].fireParticleTimer = @ + in.dt,
                    !.entities[i].fireLeft = clamp(@ + 1, 0, ONE)], LAMBDA w :
        Bind(GetPlayerEntity(w), LAMBDA p :
            LET e == w.entities[i]
            IN  IF p = NULL THEN Crash(w)
                ELSE IF /\ DistanceLess(Vec(e.rect.x, e.rect.y), w.entities[p].pos, 2000)
                        /\ e.fireParticleTimer > Lerp(50, 500, ONE - e.fireLeft)
                THEN [SpawnParticle(w, Ember(e, in))
                         EXCEPT !.entities[i].fireParticleTimer = 0]
                ELSE w))

FireStep(w0, i, in) ==
    Bind([w0 EXCEPT !.entities[i].fireParticleTimer = @ + in.dt,
                    !.entities[i].fireLeft = clamp(@, 0, ONE)], LAMBDA w :
        Bind(GetPlayerEntity(w), LAMBDA p :
            LET e == w.entities[i]
            IN  IF p = NULL THEN Crash(w)
                ELSE IF /\ DistanceLess(Vec(e.rect.x, e.rect.y), w.entities[p].pos, 2000)
                        /\ e.fireParticleTimer > Lerp(50, 500, ONE - e.fireLeft)
                THEN [SpawnParticle(w, Ember(e, in))
                         EXCEPT !.entities[i].fireParticleTimer = 0]
                ELSE w))

ProcessEntity(w0, i, in) ==
    Bind(w0, LAMBDA w :
        LET t == w.entities[i].type
        IN  IF t = Player THEN PlayerGrab(PlayerMove(w, i, in), i, in)
            ELSE IF t = Extinguisher THEN ExtinguisherStep(w, i, in)
            ELSE IF t = Fire THEN FireStep(w, i, in)
            ELSE w)

RECURSIVE ProcessEntities(_, _, _)
\* for (i = 0; i < entitiesLen; i++) ProcessEntity(&entities[i]), from i on.
ProcessEntities(w0, i, in) ==
    Bind(w0, LAMBDA w :
        IF w.crashed \/ i >= w.entitiesLen THEN w
        ELSE ProcessEntities(ProcessEntity(w, i, in), i + 1, in))

\* ----------------------------------------------------------------- editor
\* The wheel without the test for a negative remainder.
C19_ScrollTypeKeepsRemainder(type, wheel) ==
    CRem(type + wheel, MAX_TYPE + 1)

\* currentType after the mouse wheel.
ScrollType(type, wheel) ==
    LET t == CRem(type + wheel, MAX_TYPE + 1)
    IN  IF t < 0 THEN MAX_TYPE ELSE t

\* Entity toAdd = {0} with its type and position set (id is set by AddEntity).
ToAdd(type, at) ==
    IF type = Fire THEN FireEntity(0, Rect(at.x, at.y, 0, 0), ONE, 0)
    ELSE IF type = Ground \/ type = Obstacle
    THEN RectEntity(0, type, Rect(at.x, at.y, 0, 0))
    ELSE IF type = HelpText THEN HelpTextEntity(0, at, 0)
    ELSE ExtinguisherEntity(0, at, Zero2, FALSE, 0)

\* currentEntity = AddEntity(toAdd).  A write at or beyond the capacity of
\* entities[] is undefined behaviour: the model makes the write and ends
\* the run.
PlaceAt(w0, at) ==
    Bind(AddEntity(w0, ToAdd(w0.currentType, at)), LAMBDA w :
        [w EXCEPT !.currentEntity = w.entitiesLen - 1,
                  !.crashed = w.entitiesLen > ENTITIES_CAPACITY])

\* if (IsMouseButtonPressed(MOUSE_BUTTON_LEFT)) ...
EditorPlace(w0, in) ==
    Bind(w0, LAMBDA w :
        IF in.lmbPressed /\ w.currentType # Player
        THEN PlaceAt(w, WorldMousePos(w, in))
        ELSE w)

\* The resize of *currentEntity towards the mouse at m.
Resize(e, m) ==
    [e EXCEPT !.rect.width = absmax(3, m.x - e.rect.x),
              !.rect.height = absmax(3, m.y - e.rect.y)]

\* What the history keeps of *currentEntity as the text / resize step
\* finds it: the index it points at, entitiesLen, and the id in that slot.
Shaped(w) ==
    IF w.currentEntity = NULL THEN [did |-> FALSE]
    ELSE [did |-> TRUE, at |-> w.currentEntity, len |-> w.entitiesLen,
          id |-> w.entities[w.currentEntity].id]

\* The text / resize step on *currentEntity.  Each character typed is
\* written at text[len] and a NUL at text[len + 1], with no test of len: a
\* write at text[100] or beyond is outside the array (undefined behaviour):
\* the model makes the writes and ends the run.
EditorShape(w0, in) ==
    Bind([w0 EXCEPT !.probe.shaped = Shaped(w0)], LAMBDA w :
        LET c == w.currentEntity
        IN  IF c # NULL /\ w.entities[c].type = HelpText
            THEN [w EXCEPT !.entities[c].textLen = @ + in.chars,
                           !.currentEntity = IF in.enter THEN NULL ELSE c,
                           !.crashed = w.entities[c].textLen + in.chars >= TEXT_SIZE]
            ELSE IF c # NULL /\ IsRectType(w.entities[c].type)
            THEN [w EXCEPT !.entities[c] = Resize(w.entities[c], WorldMousePos(w, in)),
                           !.currentEntity = IF in.lmbReleased THEN NULL ELSE c]
            ELSE [w EXCEPT !.currentEntity = IF in.lmbReleased THEN NULL ELSE c])

\* if (IsKeyPressed(KEY_E)) ...
EditorRefill(w0, in) ==
    Bind(w0, LAMBDA w :
        IF in.keyE
        THEN [w EXCEPT !.entities = [i \in DOMAIN w.entities |->
                  IF /\ i < w.entitiesLen
                     /\ w.entities[i].type = Extinguisher
                     /\ DistanceLess(w.entities[i].pos, WorldMousePos(w, in), 15)
                  THEN [w.entities[i] EXCEPT !.amountUsed = ONE - @]
                  ELSE w.entities[i]]]
        ELSE w)

\* Whether the right mouse button at m deletes entity e.
UnderCursor(e, m) ==
    IF IsRectType(e.type) THEN RectHasPoint(e.rect, m)
    ELSE IF e.type = HelpText THEN DistanceLess(e.pos, m, 30)
    ELSE IF e.type = Extinguisher THEN DistanceLess(e.pos, m, 15)
    ELSE FALSE

RECURSIVE DeleteLoop(_, _, _)
\* The deletion scan from index i on: the break after DeleteEntityIndex
\* leaves the switch, not the for loop, which goes on with i + 1.
DeleteLoop(w0, m, i) ==
    Bind(w0, LAMBDA w :
        IF i >= w.entitiesLen THEN w
        ELSE IF UnderCursor(w.entities[i], m)
        THEN DeleteLoop(DeleteEntityIndex(w, i), m, i + 1)
        ELSE DeleteLoop(w, m, i + 1))

\* The history keeps the store before and after the scan and the place of
\* the mouse.
EditorDelete(w0, in) ==
    Bind(w0, LAMBDA w :
        IF in.rmbDown
        THEN Bind(DeleteLoop(w, WorldMousePos(w, in), 0), LAMBDA w1 :
                 [w1 EXCEPT !.probe.del = [did |-> TRUE, before |-> Live(w),
                                           after |-> Live(w1),
                                           at |-> WorldMousePos(w, in)]])
        ELSE w)

\* What the history keeps of an F1: the store and spawn point before, the
\* records written, the store and camera after.
F1Record(w, w1) ==
    [did |-> TRUE, before |-> Live(w), spawnPoint |-> w.spawnPoint,
     saved |-> ArrayLen(w1.file.data), after |-> Live(w1),
     cameraTarget |-> w1.cameraTarget, crashed |-> w1.crashed]

\* F1: SaveEntities then LoadEntities(level_name, false).
EditorSave(w0) ==
    Bind(w0, LAMBDA w :
        Bind(LoadEntities(SaveEntities(w), FALSE), LAMBDA w1 :
            [w1 EXCEPT !.probe.f1 = F1Record(w, w1)]))

EditorTeleport(w0, in) ==
    Bind(w0, LAMBDA w :
        Bind(GetPlayerEntity(w), LAMBDA p :
            IF ~in.mmbDown THEN w
            ELSE IF p = NULL THEN Crash(w)
            ELSE [w EXCEPT !.entities[p].pos = WorldMousePos(w, in)]))

\* A step of the frame, skipped once the run has ended.
Then(w0, F(_)) == Bind(w0, LAMBDA w : IF w.crashed THEN w ELSE F(w))

\* The wheel turning currentType; the history keeps the type it had.
EditorScroll(w0, in) ==
    Bind(w0, LAMBDA w :
        [w EXCEPT !.currentType = ScrollType(w.currentType, in.wheel),
                  !.probe.scrolled = [did |-> TRUE, from |-> w.currentType]])

\* The if (editing) block of UpdateGameplayScreen.
EditorStep(w0, in) ==
    Then(Then(Then(Then(Then(Then(
        EditorScroll(w0, in),
        LAMBDA w : IF in.f1 THEN EditorSave(w) ELSE w),
        LAMBDA w : EditorTeleport(w, in)),
        LAMBDA w : EditorPlace(w, in)),
        LAMBDA w : EditorShape(w, in)),
        LAMBDA w : EditorRefill(w, in)),
        LAMBDA w : EditorDelete(w, in))

\* -------------------------------------------------------------- particles
\* Dousing that also restarts the fire's ember timer.
C8_DouseRestartsTimer(w0, i, ii) ==
    Bind(w0, LAMBDA w :
        [w EXCEPT !.particles[i].vel = Zero2,
                  !.particles[i].lifetime = RDiv(@, 2),
                  !.entities[ii].fireLeft = clamp(@ - 1, 0, ONE),
                  !.entities[ii].fireParticleTimer = 0])

\* One pass of the inner loop of the particle step when particle i (a
\* RetardantParticle) lies in Fire ii.
Douse(w0, i, ii) ==
    Bind(w0, LAMBDA w :
        [w EXCEPT !.particles[i].vel = Zero2,
                  !.particles[i].lifetime = RDiv(@, 2),
                  !.entities[ii].fireLeft = clamp(@ - 1, 0, ONE)])

RECURSIVE ParticleScan(_, _, _)
\* The inner loop of the particle step for particle i, from entity ii on.
ParticleScan(w0, i, ii) ==
    Bind(w0, LAMBDA w :
        IF ii >= w.entitiesLen THEN w
        ELSE IF /\ w.entities[ii].type = Obstacle
                /\ RectHasPoint(w.entities[ii].rect, w.particles[i].pos)
        THEN [w EXCEPT !.particles[i].vel = Zero2]
        ELSE IF /\ w.particles[i].type = RetardantParticle
                /\ w.entities[ii].type = Fire
                /\ RectHasPoint(w.entities[ii].rect, w.particles[i].pos)
        THEN ParticleScan(Douse(w, i, ii), i, ii + 1)
        ELSE ParticleScan(w, i, ii + 1))

\* The end of a pass of the particle loop with the frame time added to the
\* lifetime.
C5_ParticleAgeGrows(w0, i, dt) ==
    Bind(w0, LAMBDA w :
        [w EXCEPT !.particles[i].lifetime = @ + dt,
                  !.particles[i].pos = Advance(@, w.particles[i].vel, dt)])

\* The end of one pass of the particle loop: the particle ages and moves.
ParticleAge(w0, i, dt) ==
    Bind(w0, LAMBDA w :
        [w EXCEPT !.particles[i].lifetime = @ - dt,
                  !.particles[i].pos = Advance(@, w.particles[i].vel, dt)])

\* A pass of the particle loop without the test of lifetime.
C7_ProcessParticleAlways(w0, i, dt) ==
    Bind(w0, LAMBDA w : ParticleAge(ParticleScan(w, i, 0), i, dt))

\* One pass of the particle loop.
ProcessParticle(w0, i, dt) ==
    Bind(w0, LAMBDA w :
        IF w.particles[i].lifetime <= 0 THEN w
        ELSE ParticleAge(ParticleScan(w, i, 0), i, dt))

RECURSIVE ProcessParticles(_, _, _)
\* // process particles, from slot i on.
ProcessParticles(w, i, dt) ==
    IF i >= MAX_PARTICLES THEN w
    ELSE ProcessParticles(ProcessParticle(w, i, dt), i + 1, dt)

\* The particles DrawGameplayScreen draws.
DrawnParticles(w) == {i \in 0..(MAX_PARTICLES - 1) : ~(w.particles[i].lifetime <= 0)}

\* ------------------------------------------------------------------ frame
\* History.  spawned, overwritten and handedOut are kept across frames: the
\* number of SpawnParticle calls so far, the slot contents the last call
\* replaced, and the ids AddEntity has handed out, in order.
\* The others are those of the frame just processed: f1, the F1 save and
\* load; glide, what GlideAndBounce returned for the player; processed, the
\* player's health after the entity loop; died, whether the death reload
\* ran; mid, the store and the particles as the particle step found them;
\* reloaded, whether F2 / R loaded the level; loop, the store before and
\* after the entity loop; played, the store after the death reload; del,
\* the store before and after the editor's deletion scan; scrolled,
\* currentType before the wheel turned it; shaped, what currentEntity
\* pointed at when the text / resize step began.
None == [did |-> FALSE]

Probe0 ==
    [spawned |-> 0, overwritten |-> ZeroParticle, handedOut |-> <<>>,
     f1 |-> None, glide |-> None, processed |-> None, died |-> FALSE,
     mid |-> None, loop |-> None, played |-> None, reloaded |-> FALSE,
     del |-> None, scrolled |-> None, shaped |-> None]

Reload(w0, in) ==
    Bind(w0, LAMBDA w :
        IF (w.editing /\ in.f2) \/ (~w.editing /\ in.r)
        THEN LoadEntities([w EXCEPT !.probe.reloaded = TRUE], FALSE)
        ELSE w)

\* The entity loop of the frame; the history keeps the store before and
\* after it.
EntityLoop(w0, in) ==
    Bind(w0, LAMBDA w :
        Bind(ProcessEntities(w, 0, in), LAMBDA w1 :
            [w1 EXCEPT !.probe.loop = [did |-> TRUE, before |-> Live(w),
                                       after |-> Live(w1)]]))

\* LoadEntities(level_name, false); GetPlayerEntity()->player.health = 1.0;
Respawn(w0) ==
    Then(LoadEntities([w0 EXCEPT !.probe.died = TRUE], FALSE),
         LAMBDA w : [w EXCEPT !.entities[GetPlayerEntity(w)].health = ONE])

\* The history keeps the health of player p as the entity loop left it.
Processed(w, p) ==
    [w EXCEPT !.probe.processed = [did |-> TRUE, health |-> w.entities[p].health]]

\* The death reload without the test of editing.
C16_DeathReloadWhileEditing(w0) ==
    Bind(w0, LAMBDA w :
        Bind(GetPlayerEntity(w), LAMBDA p :
            IF p = NULL THEN Crash(w)
            ELSE IF w.entities[p].health <= 0
            THEN Respawn(Processed(w, p))
            ELSE Processed(w, p)))

\* worried about calling load entities from within the entity processing loop
\* so I put it here
DeathReload(w0) ==
    Bind(w0, LAMBDA w :
        Bind(GetPlayerEntity(w), LAMBDA p :
            IF p = NULL THEN Crash(w)
            ELSE IF w.entities[p].health <= 0 /\ ~w.editing
            THEN Respawn(Processed(w, p))
            ELSE Processed(w, p)))

ParticleStep(w0, in) ==
    Bind(w0, LAMBDA w :
        ProcessParticles(
            [w EXCEPT !.probe.mid = [did |-> TRUE, entities |-> Live(w),
                                     particles |-> w.particles]],
            0, in.dt))

\* The editor block run whether editing or not.
C12_EditorGateOpen(w0, in) ==
    Bind([w0 EXCEPT !.probe.played = [did |-> TRUE, entities |-> Live(w0)]],
         LAMBDA w : EditorStep(w, in))

\* if (editing) { ... }; the history keeps the store as the death reload
\* left it.
EditorGate(w0, in) ==
    Bind([w0 EXCEPT !.probe.played = [did |-> TRUE, entities |-> Live(w0)]],
         LAMBDA w : IF w.editing THEN EditorStep(w, in) ELSE w)

\* frameID += 1; if (IsKeyPressed(KEY_TAB)) editing = !editing;
FrameStart(w0, in) ==
    Bind(w0, LAMBDA w :
        [w EXCEPT !.frameID = w.frameID + 1,
                  !.editing = IF in.tab THEN ~w.editing ELSE w.editing,
                  !.probe.f1 = None, !.probe.glide = None,
                  !.probe.processed = None, !.probe.died = FALSE,
                  !.probe.mid = None, !.probe.loop = None,
                  !.probe.played = None, !.probe.reloaded = FALSE,
                  !.probe.del = None, !.probe.scrolled = None,
                  !.probe.shaped = None])

UpdateGameplayScreen(w0, in) ==
    Then(Then(Then(Then(Then(
        FrameStart(w0, in),
        LAMBDA w : Reload(w, in)),
        LAMBDA w : EntityLoop(w, in)),
        LAMBDA w : DeathReload(w)),
        LAMBDA w : EditorGate(w, in)),
        LAMBDA w : ParticleStep(w, in))

\* ------------------------------------------------------------------- init
\* The static variables as the program starts: zeroed, editing false.
World0(f) ==
    [entities |-> <<>>, entitiesLen |-> 0, curNextEntityID |-> 0,
     particles |-> [i \in 0..(MAX_PARTICLES - 1) |-> ZeroParticle],
     curParticleIndex |-> 0, editing |-> FALSE, currentType |-> 0,
     currentEntity |-> NULL, spawnPoint |-> Zero2, cameraTarget |-> Zero2,
     frameID |-> 0, file |-> f, crashed |-> FALSE, probe |-> Probe0]

\* The built-in level of InitGameplayScreen.
BuiltIn ==
    [i \in 0..1 |->
        IF i = 0 THEN PlayerEntity(0, Vec(200, 300), Zero2, FALSE, -1, 0)
        ELSE RectEntity(1, Obstacle, Rect(100, 400, 100, 200))]

\* f is the level file as the program finds it.
InitGameplayScreen(f) ==
    IF f.exists THEN LoadEntities(World0(f), TRUE)
    ELSE [World0(f) EXCEPT !.entities = BuiltIn,
                           !.curNextEntityID = 2,
                           !.entitiesLen = 2,
                           !.spawnPoint = BuiltIn[0].pos]

\* The state variables take the fields of w.
Become(w0, in) ==
    \E w \in {w0} :
        /\ entities' = w.entities
        /\ entitiesLen' = w.entitiesLen
        /\ curNextEntityID' = w.curNextEntityID
        /\ particles' = w.particles
        /\ curParticleIndex' = w.curParticleIndex
        /\ editing' = w.editing
        /\ currentType' = w.currentType
        /\ currentEntity' = w.currentEntity
        /\ spawnPoint' = w.spawnPoint
        /\ cameraTarget' = w.cameraTarget
        /\ frameID' = w.frameID
        /\ file' = w.file
        /\ crashed' = w.crashed
        /\ probe' = w.probe
        /\ input' = in

Starts(w0) ==
    \E w \in {w0} :
        /\ entities = w.entities
        /\ entitiesLen = w.entitiesLen
        /\ curNextEntityID = w.curNextEntityID
        /\ particles = w.particles
        /\ curParticleIndex = w.curParticleIndex
        /\ editing = w.editing
        /\ currentType = w.currentType
        /\ currentEntity = w.currentEntity
        /\ spawnPoint = w.spawnPoint
        /\ cameraTarget = w.cameraTarget
        /\ frameID = w.frameID
        /\ file = w.file
        /\ crashed = w.crashed
        /\ probe = w.probe
        /\ input = NoInput

\* One call of UpdateGameplayScreen with input in, among the first limit
\* frames of a run that has not ended.
FrameUpTo(in, limit) ==
    /\ ~crashed
    /\ frameID < limit
    /\ Become(UpdateGameplayScreen(World, in), in)

Frame(in) == FrameUpTo(in, MaxFrames)

\* ------------------------------------------------ the editor specification
\* Two places of the mouse on the 900 x 900 screen.
MouseA == Vec(600, 850)

MouseB == Vec(400, 650)

Mice == {MouseA, MouseB}

\* The inputs of an editing session: TAB, the wheel, left press / drag /
\* release, right button, middle button, F1, F2, R, or nothing.
EditorInputs ==
    {NoInput,
     [NoInput EXCEPT !.tab = TRUE],
     [NoInput EXCEPT !.f1 = TRUE],
     [NoInput EXCEPT !.f2 = TRUE],
     [NoInput EXCEPT !.r = TRUE]}
    \cup {[NoInput EXCEPT !.wheel = k] : k \in {1, 3, -1}}
    \cup {[NoInput EXCEPT !.lmbPressed = TRUE, !.lmbDown = TRUE, !.mouse = m] : m \in Mice}
    \cup {[NoInput EXCEPT !.lmbReleased = TRUE, !.mouse = m] : m \in {MouseB}}
    \cup {[NoInput EXCEPT !.rmbPressed = TRUE, !.rmbDown = TRUE, !.mouse = m] : m \in Mice}
    \cup {[NoInput EXCEPT !.mmbDown = TRUE, !.mouse = m] : m \in {MouseA}}

\* The frame's input is admitted while the store is below the explored size.
Admitted(in) == in.lmbPressed => entitiesLen < MaxEntities

Init == Starts(InitGameplayScreen(NoFile))

Next == \E in \in EditorInputs : Admitted(in) /\ Frame(in)

Spec == Init /\ [][Next]_vars

\* ---------------------------------------- filling the store: specification
\* An editing session that only places entities: TAB and a turn of the wheel
\* in the first frame, then one left click per frame, on to the capacity of
\* entities[] and one past it.
FillInputs ==
    {[NoInput EXCEPT !.tab = TRUE, !.wheel = k] : k \in {1, 5}}
    \cup {[NoInput EXCEPT !.lmbPressed = TRUE, !.lmbDown = TRUE, !.mouse = m, !.wheel = k] :
             m \in Mice, k \in {0, 1}}

NextFill ==
    \E in \in FillInputs :
        (in.tab <=> frameID = 0) /\ FrameUpTo(in, ENTITIES_CAPACITY + 1)

SpecFill == Init /\ [][NextFill]_vars

\* ---------------------------------------------------- levels saved earlier
\* A level as SaveEntities wrote it in an earlier session: the player (with
\* the given health, holding extinguisher 3) on a patch of ground, the
\* obstacle of the built-in level below it, and a fire to its right that
\* has been sprayed down to fireLeft.
Level(health, fireLeft) ==
    [exists |-> TRUE,
     data |-> [i \in 0..4 |->
        CASE i = 0 -> PlayerEntity(0, Vec(200, 300), Zero2, TRUE, 3, health)
          [] i = 1 -> RectEntity(1, Ground, Rect(150, 250, 100, 100))
          [] i = 2 -> RectEntity(2, Obstacle, Rect(100, 400, 100, 200))
          [] i = 3 -> ExtinguisherEntity(3, Vec(200, 300), Zero2, TRUE, 0)
          [] i = 4 -> FireEntity(4, Rect(210, 280, 300, 40), fireLeft, 0)]]

\* --------------------------------------------------- the play specification
\* Walking (D, A, S), standing, throwing the extinguisher, at 60 and at 10
\* frames a second.
PlayInputs ==
    {NoInput, [NoInput EXCEPT !.dt = 100]}
    \cup {[NoInput EXCEPT !.dt = 100, !.move = m] : m \in {Vec(1, 0), Vec(-1, 0), Vec(0, 1)}}
    \cup {[NoInput EXCEPT !.dt = 100, !.rmbPressed = TRUE, !.rmbDown = TRUE,
                          !.mouse = Vec(550, 450)]}

InitPlay == \E h \in {ONE, 50} : Starts(InitGameplayScreen(Level(h, ONE)))

NextPlay == \E in \in PlayInputs : FrameUpTo(in, PlayFrames)

SpecPlay == InitPlay /\ [][NextPlay]_vars

\* ----------------------------------------------- the spraying specification
\* The level of a spraying session: as Level(1.0, 0.2), with a small
\* obstacle standing in the fire, placed before the fire was.
SprayLevel ==
    [exists |-> TRUE,
     data |-> [i \in 0..5 |->
        CASE i = 0 -> PlayerEntity(0, Vec(200, 300), Zero2, TRUE, 3, ONE)
          [] i = 1 -> RectEntity(1, Ground, Rect(150, 250, 100, 100))
          [] i = 2 -> RectEntity(2, Obstacle, Rect(100, 400, 100, 200))
          [] i = 3 -> ExtinguisherEntity(3, Vec(200, 300), Zero2, TRUE, 0)
          [] i = 4 -> RectEntity(4, Obstacle, Rect(217, 307, 6, 6))
          [] i = 5 -> FireEntity(5, Rect(210, 280, 300, 40), 200, 0)]]

\* The spray leaves along the aim, or half a radian off it.
SprayRnd == {NoRnd, [NoRnd EXCEPT !.sprayCos = 878, !.spraySin = 479]}

\* Standing with the extinguisher, spraying to the right or not, at 60 and
\* at 10 frames a second.
SprayInputs ==
    {[NoInput EXCEPT !.dt = d, !.mouse = Vec(550, 450)] : d \in {16, 100}}
    \cup {[NoInput EXCEPT !.dt = 16, !.lmbDown = TRUE, !.mouse = Vec(550, 450)]}
    \cup {[NoInput EXCEPT !.dt = 100, !.lmbDown = TRUE, !.mouse = Vec(550, 450),
                          !.rnd = r] : r \in SprayRnd}

InitParticles == Starts(InitGameplayScreen(SprayLevel))

NextParticles == \E in \in SprayInputs : FrameUpTo(in, ParticleFrames)

SpecParticles == InitParticles /\ [][NextParticles]_vars

\* ================================================================= claims
\* ----------------------------------------------------------------- C1, C2
\* The ids of the entities of array a.
Ids(a) == {a[i].id : i \in DOMAIN a}

\* C1: in every state reachable from InitGameplayScreen by editor
\* placements, editor deletions, SaveEntities and LoadEntities of a file
\* the program saved, no two entities of entities[0..entitiesLen-1] have
\* the same id.
C1_NoTwoEntitiesShareAnId ==
    \A i, j \in 0..(entitiesLen - 1) :
        entities[i].id = entities[j].id => i = j

\* C1's case: a level was saved and loaded, an entity has been placed since
\* (its id is not in the file) and one deleted since (its id is only in the
\* file), and several entities are in the store.
C1_Witness ==
    /\ file.exists
    /\ ~crashed
    /\ entitiesLen >= 3
    /\ Ids(Live(World)) \ Ids(file.data) # {}
    /\ Ids(file.data) \ Ids(Live(World)) # {}

\* C2: every id AddEntity hands out is strictly greater than every id it
\* handed out earlier; curNextEntityID is strictly greater than the id of
\* every entity in the store and than every id handed out; and no step
\* (LoadEntities included) lowers curNextEntityID.
C2_IdsAreMonotone ==
    /\ [](/\ \A a, b \in 1..Len(probe.handedOut) :
               a < b => probe.handedOut[a] < probe.handedOut[b]
          /\ \A a \in 1..Len(probe.handedOut) :
               probe.handedOut[a] < curNextEntityID
          /\ \A i \in 0..(entitiesLen - 1) :
               entities[i].id < curNextEntityID)
    /\ [][curNextEntityID' >= curNextEntityID]_vars

\* C2's case: ids were handed out before and after a load of a saved level
\* that raised curNextEntityID past the ids handed out so far.
C2_Witness ==
    /\ file.exists
    /\ ~crashed
    /\ Len(probe.handedOut) >= 2
    /\ probe.handedOut[Len(probe.handedOut)] > probe.handedOut[1] + 1
    /\ probe.handedOut[1] \in Ids(file.data)
    /\ probe.handedOut[Len(probe.handedOut)] \in Ids(Live(World))

\* --------------------------------------------------------------------- C3
\* C3: the player's health is within [0, 1] in every state, and was within
\* [0, 1] when the entity loop of the frame had processed the Player
\* (before the death reload), whatever the frame time and whether the
\* player is in fire, off ground or on ground.
C3_HealthWithinUnitRange ==
    /\ \A i \in 0..(entitiesLen - 1) :
           entities[i].type = Player => entities[i].health \in 0..ONE
    /\ probe.processed.did => probe.processed.health \in 0..ONE

\* C3's case: the frame took the player's health to the lower clamp (the
\* loss in fire exceeded what was left) and the death reload ran.
C3_Witness ==
    /\ probe.died
    /\ probe.processed.did
    /\ probe.processed.health = 0
    /\ ~crashed
    /\ entities[GetPlayerEntity(World)].health = ONE

\* --------------------------------------------------------------------- C4
\* C4: when GlideAndBounce returns for the player, the returned position is
\* at distance >= player_radius from the closest point of every Obstacle
\* rectangle in the store (here: to within the pixel that positions are
\* rounded to, so that a position pushed to the radius counts as clear).
C4_GlideKeepsPlayerRadiusAway ==
    probe.glide.did =>
        \A o \in probe.glide.obstacles :
            ~DistanceLess(ClosestPointOnObstacle(probe.glide.pos, o),
                          probe.glide.pos, player_radius - 1)

\* -------------------------------------------------------------------- C10
\* C10: entitiesLen is at most the capacity of entities[], and no slot at
\* or beyond the capacity has been written.
C10_EntityArrayNeverOverflows ==
    /\ entitiesLen <= ENTITIES_CAPACITY
    /\ ArrayLen(entities) <= ENTITIES_CAPACITY

\* ---------------------------------------------------------------- C5 - C8
\* The slots of the particle pool.
Slots == 0..(MAX_PARTICLES - 1)

\* The Fires of store a (an array of entities) whose rectangle holds pos.
FiresAt(a, pos) ==
    {ii \in DOMAIN a : a[ii].type = Fire /\ RectHasPoint(a[ii].rect, pos)}

\* Whether the entity scan of the particle step, run for a particle at pos,
\* reaches entity ii of store a: no Obstacle before ii holds pos.
ScanReaches(a, pos, ii) ==
    \A jj \in DOMAIN a :
        jj < ii => ~(a[jj].type = Obstacle /\ RectHasPoint(a[jj].rect, pos))

\* The Fires of store a that particle q douses in one particle step.
FiresDoused(a, q) ==
    IF q.lifetime > 0 /\ q.type = RetardantParticle
    THEN {ii \in FiresAt(a, q.pos) : ScanReaches(a, q.pos, ii)}
    ELSE {}

RECURSIVE Halved(_, _)
\* lifetime after k halvings.
Halved(lifetime, k) == IF k = 0 THEN lifetime ELSE Halved(RDiv(lifetime, 2), k - 1)

\* C5, as claimed: in every frame a live particle's lifetime becomes its
\* lifetime halved once for each Fire a retardant particle is inside, less
\* the frame time.
C5_HalvedForEachFireInside ==
    probe.mid.did =>
        \A i \in Slots :
            LET q == probe.mid.particles[i]
                k == IF q.type = RetardantParticle
                     THEN Cardinality(FiresAt(probe.mid.entities, q.pos)) ELSE 0
            IN  q.lifetime > 0 => particles[i].lifetime = Halved(q.lifetime, k) - input.dt

\* C5, amended: from the frame a particle is spawned until its slot is
\* overwritten its lifetime never increases from one frame to the next;
\* while it is live and the frame time is positive it strictly decreases,
\* by the frame time after one halving for each Fire that a retardant
\* particle is inside and that the entity scan reaches (the scan stops at
\* the first Obstacle the particle is inside).
C5_LifetimeDecreases ==
    /\ [](probe.mid.did =>
            \A i \in Slots :
                LET q == probe.mid.particles[i]
                    k == Cardinality(FiresDoused(probe.mid.entities, q))
                IN  /\ particles[i].lifetime <= q.lifetime
                    /\ q.lifetime > 0 =>
                           /\ particles[i].lifetime = Halved(q.lifetime, k) - input.dt
                           /\ input.dt > 0 => particles[i].lifetime < q.lifetime)
    /\ [][\A i \in Slots :
              particles'[i].seq = particles[i].seq =>
                  /\ particles'[i].lifetime <= particles[i].lifetime
                  /\ probe'.mid.did => probe'.mid.particles[i] = particles[i]
                  /\ (particles[i].lifetime > 0 /\ input'.dt > 0 /\ probe'.mid.did) =>
                         particles'[i].lifetime < particles[i].lifetime]_vars

\* C5's case: a retardant particle spawned in an earlier frame, inside the
\* fire, has just been halved and aged, and is still live.
C5_Witness ==
    /\ probe.mid.did
    /\ \E i \in Slots :
          LET q == probe.mid.particles[i]
          IN  /\ q.seq > 0
              /\ q.lifetime < 2900
              /\ FiresDoused(probe.mid.entities, q) # {}
              /\ particles[i].lifetime > 0
              /\ particles[i].lifetime < q.lifetime - input.dt

\* C6: curParticleIndex is always in [0, MAX_PARTICLES); the k-th
\* SpawnParticle call wrote slot k mod MAX_PARTICLES (each call goes to
\* (curParticleIndex + 1) mod MAX_PARTICLES, consecutive calls to
\* consecutive slots), so each of the last MAX_PARTICLES spawns is still in
\* its slot, a slot never written is still zero, and what the last call
\* replaced is the particle spawned MAX_PARTICLES calls earlier, live or
\* not; a frame changes the slots of the calls it made and, before the
\* particle step, no other.
C6_PoolIsRingBuffer ==
    /\ [](/\ curParticleIndex \in Slots
          /\ curParticleIndex = probe.spawned % MAX_PARTICLES
          /\ \A i \in Slots :
                IF \E k \in 1..probe.spawned : k % MAX_PARTICLES = i
                THEN /\ particles[i].seq % MAX_PARTICLES = i
                     /\ particles[i].seq <= probe.spawned
                     /\ particles[i].seq > probe.spawned - MAX_PARTICLES
                ELSE particles[i] = ZeroParticle
          /\ probe.overwritten.seq =
                IF probe.spawned > MAX_PARTICLES
                THEN probe.spawned - MAX_PARTICLES ELSE 0)
    /\ [][/\ probe'.spawned >= probe.spawned
          /\ \A i \in Slots :
                /\ particles'[i].seq # particles[i].seq =>
                       /\ particles'[i].seq > probe.spawned
                       /\ particles'[i].seq <= probe'.spawned
                /\ (particles'[i].seq = particles[i].seq /\ probe'.mid.did) =>
                       probe'.mid.particles[i] = particles[i]
          /\ Cardinality({i \in Slots : particles'[i].seq # particles[i].seq}) =
                IF probe'.spawned - probe.spawned > MAX_PARTICLES
                THEN MAX_PARTICLES ELSE probe'.spawned - probe.spawned]_vars

\* C6's case: the ring has wrapped, and the last spawn replaced a particle
\* that was still live.
C6_Witness ==
    /\ probe.spawned > MAX_PARTICLES
    /\ probe.overwritten.lifetime > 0
    /\ probe.overwritten.seq = probe.spawned - MAX_PARTICLES
    /\ particles[curParticleIndex].seq = probe.spawned

\* The live retardant particles of pool ps that douse Fire ii of store a.
Dousing(a, ps, ii) == {i \in Slots : ii \in FiresDoused(a, ps[i])}

\* C7: once a slot's lifetime is <= 0 and until SpawnParticle writes the
\* slot, a frame leaves the slot as it is (position, lifetime, velocity);
\* the particle step takes from a Fire's fireLeft no more than 0.001 for
\* each live retardant particle inside it, nothing for a dead one; and a
\* slot whose lifetime is <= 0 is not drawn.
C7_DeadParticleIsInert ==
    /\ [](/\ \A i \in Slots :
                particles[i].lifetime <= 0 => i \notin DrawnParticles(World)
          /\ probe.mid.did =>
                \A ii \in DOMAIN probe.mid.entities :
                    probe.mid.entities[ii].type = Fire =>
                        probe.mid.entities[ii].fireLeft - entities[ii].fireLeft
                            <= Cardinality(Dousing(probe.mid.entities,
                                                   probe.mid.particles, ii)))
    /\ [][\A i \in Slots :
              (particles[i].lifetime <= 0 /\ particles'[i].seq = particles[i].seq)
                  => particles'[i] = particles[i]]_vars

\* C7's case: a retardant particle that died inside a fire lies there, dead
\* since before the frame, and the frame's particle step has run.
C7_Witness ==
    /\ probe.mid.did
    /\ \E i \in Slots :
          /\ particles[i].seq > 0
          /\ particles[i].type = RetardantParticle
          /\ particles[i].lifetime <= 0
          /\ probe.mid.particles[i] = particles[i]
          /\ \E ii \in FiresAt(probe.mid.entities, particles[i].pos) :
                /\ ScanReaches(probe.mid.entities, particles[i].pos, ii)
                /\ entities[ii].fireLeft > 0

C9_SaveLoadRoundTrip ==
    probe.f1.did =>
        /\ ~probe.f1.crashed
        /\ probe.f1.saved = ArrayLen(probe.f1.before)
        /\ file.data = probe.f1.before
        /\ DOMAIN probe.f1.after = DOMAIN probe.f1.before
        /\ \A i \in DOMAIN probe.f1.before :
              probe.f1.after[i] =
                  IF probe.f1.before[i].type = Player
                  THEN [probe.f1.before[i] EXCEPT !.pos = probe.f1.spawnPoint]
                  ELSE probe.f1.before[i]
        /\ probe.f1.cameraTarget = probe.f1.spawnPoint

\* C9's case: F1 with entities of several types in the store and the
\* player away from the spawn point.
C9_Witness ==
    /\ probe.f1.did
    /\ ArrayLen(probe.f1.before) >= 3
    /\ \E i \in DOMAIN probe.f1.before :
          /\ probe.f1.before[i].type = Player
          /\ probe.f1.before[i].pos # probe.f1.spawnPoint
          /\ probe.f1.after[i].pos = probe.f1.spawnPoint
    /\ \E i \in DOMAIN probe.f1.before :
          probe.f1.before[i].type \in {Extinguisher, HelpText, Fire}

\* -------------------------------------------------------------------- C11
\* Stores a and b hold the same number of entities with, place by place,
\* the same id and type.
SameShape(a, b) ==
    /\ DOMAIN a = DOMAIN b
    /\ \A i \in DOMAIN a : a[i].id = b[i].id /\ a[i].type = b[i].type

\* C11: the entity loop of a frame (ProcessEntity over all entities) and
\* the particle step never change entitiesLen, the order of the entities,
\* or any entity's id or type.
C11_LoopAndParticlesKeepShape ==
    /\ probe.loop.did => SameShape(probe.loop.before, probe.loop.after)
    /\ probe.mid.did => SameShape(probe.mid.entities, Live(World))

\* C11's case: a frame whose entity loop changed entities (the spray used
\* the extinguisher and pushed the player) and whose particle step changed
\* one (the fire).
C11_Witness ==
    /\ probe.loop.did
    /\ probe.loop.before # probe.loop.after
    /\ probe.mid.did
    /\ probe.mid.entities # Live(World)
    /\ input.lmbDown

\* -------------------------------------------------------------------- C12
\* C12: each TAB press flips editing and nothing else changes it; in a
\* frame where editing is false after the toggle, UpdateGameplayScreen adds
\* no entity, deletes none, resizes none, does not change currentType (or
\* currentEntity), does not teleport the player and does not save the
\* level: the store the particle step finds is the store the death reload
\* left; and the reload of the frame's start runs exactly on F2 while
\* editing and on R while not editing.
C12_EditingIsGated ==
    /\ [](/\ (~editing /\ probe.played.did) =>
                /\ ~probe.f1.did
                /\ ~probe.del.did
                /\ probe.mid.did => probe.mid.entities = probe.played.entities
          /\ probe.reloaded <=>
                (frameID >= 1 /\ ((editing /\ input.f2) \/ (~editing /\ input.r))))
    /\ [][/\ editing' = (IF input'.tab THEN ~editing ELSE editing)
          /\ ~editing' =>
                /\ currentType' = currentType
                /\ currentEntity' = currentEntity
                /\ file' = file
                /\ probe'.handedOut = probe.handedOut]_vars

\* C12's case: a left press in play mode, with a placeable type selected
\* and a level saved, in a frame that ran to its end.
C12_Witness ==
    /\ ~editing
    /\ ~crashed
    /\ file.exists
    /\ input.lmbPressed
    /\ currentType # Player
    /\ probe.played.did
    /\ probe.mid.did

\* -------------------------------------------------------------------- C13
\* C13: GetEntityIndex(id) is the smallest index below entitiesLen whose
\* entity has that id, and -1 when there is none; GetEntity(id) is NULL in
\* exactly that case; the copy a deletion leaves in the array at an index
\* at or beyond entitiesLen is never found.
C13_LookupScansLivePrefix ==
    \A id \in 0..curNextEntityID :
        LET found == {i \in 0..(entitiesLen - 1) : entities[i].id = id}
            index == GetEntityIndex(World, id)
        IN  /\ found = {} => index = -1
            /\ found # {} => /\ index \in found
                             /\ \A i \in found : index <= i
            /\ (GetEntity(World, id) = NULL) <=> (index = -1)

\* C13's case: the array still holds, beyond entitiesLen, the copy of a
\* deleted entity whose id no live entity has, and the lookup of that id
\* finds nothing.
C13_Witness ==
    /\ ~crashed
    /\ probe.del.did
    /\ \E k \in entitiesLen..(ArrayLen(entities) - 1) :
           /\ \A i \in 0..(entitiesLen - 1) : entities[i].id # entities[k].id
           /\ GetEntityIndex(World, entities[k].id) = -1
           /\ GetEntity(World, entities[k].id) = NULL

\* -------------------------------------------------------------------- C14
\* The array a (on 0..n-1) without its element at index.
Without(a, index) ==
    [i \in 0..(ArrayLen(a) - 2) |-> IF i < index THEN a[i] ELSE a[i + 1]]

\* C14: DeleteEntityIndex(index), for an index below entitiesLen, lowers
\* entitiesLen by one, leaves the entities before index as they are and
\* moves each later one down by one place, in order, and changes nothing
\* else; DeleteEntity(id) does that at the index of the entity with the id
\* and leaves the store as it is when no entity has it; a frame of the
\* editor that removed one entity left the others in order.
C14_DeleteShiftsDown ==
    /\ \A index \in 0..(entitiesLen - 1) :
           LET d == DeleteEntityIndex(World, index)
           IN  /\ d.entitiesLen = entitiesLen - 1
               /\ \A i \in 0..(index - 1) : d.entities[i] = entities[i]
               /\ \A i \in index..(entitiesLen - 2) : d.entities[i] = entities[i + 1]
               /\ Live(d) = Without(Live(World), index)
               /\ [d EXCEPT !.entities = entities, !.entitiesLen = entitiesLen] = World
    /\ \A id \in 0..curNextEntityID :
           IF \E i \in 0..(entitiesLen - 1) : entities[i].id = id
           THEN /\ DeleteEntity(World, id) = DeleteEntityIndex(World, GetEntityIndex(World, id))
                /\ entities[GetEntityIndex(World, id)].id = id
                /\ DeleteEntity(World, id).entitiesLen = entitiesLen - 1
           ELSE DeleteEntity(World, id) = World
    /\ (probe.del.did /\ ArrayLen(probe.del.after) = ArrayLen(probe.del.before) - 1) =>
           \E index \in DOMAIN probe.del.before :
               probe.del.after = Without(probe.del.before, index)

\* C14's case: the editor deleted one entity of three or more that was
\* not the last, so that a later one moved down and an earlier one stayed.
C14_Witness ==
    /\ ~crashed
    /\ probe.del.did
    /\ ArrayLen(probe.del.before) >= 3
    /\ ArrayLen(probe.del.after) = ArrayLen(probe.del.before) - 1
    /\ \E index \in 1..(ArrayLen(probe.del.before) - 2) :
           probe.del.after = Without(probe.del.before, index)

\* -------------------------------------------------------------------- C15
\* The indexes of the entities of the array a that lie under the cursor at m.
Deletable(a, m) == {i \in DOMAIN a : UnderCursor(a[i], m)}

\* C15: in a frame where the right mouse button is down in editing mode,
\* at most one entity is deleted, the first in array order that lies under
\* the cursor, even when several deletable entities lie under it.
C15_AtMostOneDeleted ==
    probe.del.did =>
        LET under == Deletable(probe.del.before, probe.del.at)
        IN  IF under = {} THEN probe.del.after = probe.del.before
            ELSE probe.del.after =
                    Without(probe.del.before,
                            CHOOSE i \in under : \A j \in under : i <= j)

\* -------------------------------------------------------------------- C16
\* The records of the level file as LoadEntities(level_name, false)
\* followed by health = 1.0 leaves them in the store.
Respawned(data, spawn) ==
    [i \in DOMAIN data |->
        IF i = GetPlayerEntity([entities |-> data, entitiesLen |-> ArrayLen(data)])
        THEN [data[i] EXCEPT !.pos = spawn, !.health = ONE]
        ELSE data[i]]

pushedOnto == Rect(100, 300, 100, 85)

pushedOff == Rect(100, 385, 100, 10)

pushedOntoNegative == Rect(200, 385, -100, -85)

GlideLevel(pos, onGround, grounds, groundFirst) ==
    LET obstacle == <<RectEntity(1, Obstacle, Rect(100, 400, 100, 200))>>
        rest == IF groundFirst THEN grounds \o obstacle ELSE obstacle \o grounds
    IN  [exists |-> TRUE,
         data |-> [i \in 0..Len(rest) |->
                      IF i = 0 THEN PlayerEntity(0, pos, Zero2, onGround, -1, ONE)
                      ELSE [rest[i] EXCEPT !.id = i]]]

GlideLevels ==
    {GlideLevel(pos, onGround, grounds, groundFirst) :
        pos \in {Vec(150, 390), Vec(150, 350)},
        onGround \in BOOLEAN,
        grounds \in {<<>>} \cup {<<RectEntity(2, Ground, r)>> :
                        r \in {pushedOnto, pushedOff, pushedOntoNegative}},
        groundFirst \in BOOLEAN}

\* Standing, walking right and walking down, at 10 frames a second.
GlideInputs ==
    {[NoInput EXCEPT !.dt = 100, !.move = m] : m \in {Zero2, Vec(1, 0), Vec(0, 1)}}

InitGlide == \E f \in GlideLevels : Starts(InitGameplayScreen(f))

NextGlide == \E in \in GlideInputs : FrameUpTo(in, PlayFrames)

SpecGlide == InitGlide /\ [][NextGlide]_vars

RECURSIVE PosAt(_, _, _)
\* The position GlideAndBounce holds when its loop over the store a comes
\* to index j, having started at pos.
PosAt(a, pos, j) ==
    IF j = 0 THEN pos
    ELSE Bind(PosAt(a, pos, j - 1), LAMBDA p :
             IF a[j - 1].type = Obstacle
             THEN CorrectPosition(p, FixNegativeRect(a[j - 1].rect))
             ELSE p)

\* Whether some Ground of the store a holds the position the loop has when
\* it comes to it.
GroundScanned(a, pos) ==
    \E j \in DOMAIN a :
        /\ a[j].type = Ground
        /\ CheckCollisionPointRec(PosAt(a, pos, j), FixNegativeRect(a[j].rect))

\* C17: GlideAndBounce computes onGround anew at each call: the returned
\* onGround is true exactly when, for some Ground entity of the store, the
\* position held when that entity is scanned lies in its rectangle
\* (negative width and height normalised); with no Ground entity it is
\* false; the onGround passed in has no influence on what is returned.
C17_OnGroundRecomputed ==
    /\ probe.glide.did =>
          /\ probe.glide.onGround
                <=> GroundScanned(probe.glide.store, probe.glide.from.pos)
          /\ (\A j \in DOMAIN probe.glide.store : probe.glide.store[j].type # Ground)
                => ~probe.glide.onGround
    /\ \A i \in 0..(entitiesLen - 1) :
          entities[i].type = Player =>
              \A g \in BOOLEAN :
                  LET k == GlideAndBounce(World, [Kinematic(entities[i]) EXCEPT
                                                     !.onGround = g], ONE)
                  IN  /\ k.onGround <=> GroundScanned(Live(World), entities[i].pos)
                      /\ k = GlideAndBounce(World, [Kinematic(entities[i]) EXCEPT
                                                       !.onGround = ~g], ONE)

\* C17's case: a call that was handed onGround = TRUE and returned FALSE
\* because the obstacle, listed before the Ground, had pushed the position
\* out of the Ground's rectangle that held it at the start of the call.
C17_Witness ==
    /\ ~crashed
    /\ probe.glide.did
    /\ probe.glide.from.onGround
    /\ ~probe.glide.onGround
    /\ \E j \in DOMAIN probe.glide.store :
          /\ probe.glide.store[j].type = Ground
          /\ RectHasPoint(probe.glide.store[j].rect, probe.glide.from.pos)
          /\ ~RectHasPoint(probe.glide.store[j].rect, probe.glide.pos)

\* -------------------------------------------------------------------- C18
\* The rectangles of the live Obstacle, Ground and Fire entities.
LiveRects ==
    {entities[i].rect : i \in {i \in 0..(entitiesLen - 1) : IsRectType(entities[i].type)}}

Lower(a, b) == IF a < b THEN a ELSE b

\* Whether point lies between the two x edges and between the two y edges
\* of rect, whichever way round it was drawn.
Covers(rect, point) ==
    /\ point.x >= Lower(rect.x, rect.x + rect.width)
    /\ point.x <= max(rect.x, rect.x + rect.width)
    /\ point.y >= Lower(rect.y, rect.y + rect.height)
    /\ point.y <= max(rect.y, rect.y + rect.height)

\* Points on, just inside and just outside every edge and corner of rect.
AroundEdges(rect) ==
    {Vec(x + dx, y + dy) :
        x \in {rect.x, rect.x + rect.width}, y \in {rect.y, rect.y + rect.height},
        dx \in -1..1, dy \in -1..1}

\* C18: FixNegativeRect returns a rectangle with width >= 0 and height >= 0
\* that covers the same points as its argument; it is idempotent, and the
\* identity on rectangles whose width and height are not negative;
\* RectHasPoint(rect, p) is the point-in-rectangle test on
\* FixNegativeRect(rect).
C18_FixNegativeRectNormalises ==
    \A rect \in LiveRects :
        LET fixed == FixNegativeRect(rect)
        IN  /\ fixed.width >= 0
            /\ fixed.height >= 0
            /\ fixed.x = Lower(rect.x, rect.x + rect.width)
            /\ fixed.x + fixed.width = max(rect.x, rect.x + rect.width)
            /\ fixed.y = Lower(rect.y, rect.y + rect.height)
            /\ fixed.y + fixed.height = max(rect.y, rect.y + rect.height)
            /\ FixNegativeRect(fixed) = fixed
            /\ (rect.width >= 0 /\ rect.height >= 0) => fixed = rect
            /\ \A p \in AroundEdges(rect) \cup {WorldMousePos(World, input)} :
                   /\ Covers(fixed, p) <=> Covers(rect, p)
                   /\ CheckCollisionPointRec(p, fixed) <=> Covers(rect, p)
                   /\ RectHasPoint(rect, p) <=> CheckCollisionPointRec(p, fixed)

\* C18's case: the editor has drawn a rectangle up and to the left, so
\* that a live entity has negative width and negative height, and another
\* live rectangle has neither negative.
C18_Witness ==
    /\ ~crashed
    /\ \E rect \in LiveRects :
          /\ rect.width < 0
          /\ rect.height < 0
          /\ FixNegativeRect(rect) # rect
    /\ \E rect \in LiveRects : rect.width > 0 /\ rect.height > 0

\* -------------------------------------------------------------------- C19
\* TAB and every turn of the wheel up to MaxWheel notches either way.
WheelInputs ==
    {[NoInput EXCEPT !.tab = TRUE]}
    \cup {[NoInput EXCEPT !.wheel = k] : k \in -MaxWheel..MaxWheel}

NextWheel == \E in \in WheelInputs : Frame(in)

SpecWheel == Init /\ [][NextWheel]_vars

\* currentType + wheel of the frame just processed.
Scrolled == probe.scrolled.from + input.wheel

\* C19 as amended: after every frame 0 <= currentType <= MAX_TYPE, for any
\* turn of the wheel; a turn to or past the last type wraps round from the
\* first (the remainder of the division by the number of types); a turn
\* below 0 gives MAX_TYPE, except a turn to a negative multiple of the
\* number of types, which gives 0.
C19_CurrentTypeValid ==
    /\ currentType \in 0..MAX_TYPE
    /\ probe.scrolled.did =>
          /\ Scrolled >= 0 => currentType = Scrolled % (MAX_TYPE + 1)
          /\ (Scrolled < 0 /\ Scrolled % (MAX_TYPE + 1) # 0) => currentType = MAX_TYPE
          /\ (Scrolled < 0 /\ Scrolled % (MAX_TYPE + 1) = 0) => currentType = 0

\* C19's case: a turn of more notches than there are types, down from
\* the first type to a negative multiple of their number.
C19_Witness ==
    /\ ~crashed
    /\ probe.scrolled.did
    /\ -input.wheel > MAX_TYPE + 1
    /\ Scrolled < 0
    /\ Scrolled % (MAX_TYPE + 1) = 0
    /\ currentType = 0

\* C19 as stated: currentType is a valid type, a turn past the last type
\* wraps round from the first, and every turn below 0 gives MAX_TYPE.
C19_BelowZeroGivesMaxType ==
    /\ currentType \in 0..MAX_TYPE
    /\ probe.scrolled.did =>
          /\ Scrolled >= 0 => currentType = Scrolled % (MAX_TYPE + 1)
          /\ Scrolled < 0 => currentType = MAX_TYPE

\* -------------------------------------------------------------------- C20
\* The indexes of the live entities of type Player.
Players == {i \in 0..(entitiesLen - 1) : entities[i].type = Player}

\* C20: starting from InitGameplayScreen without a level file, after any
\* frames with any inputs, exactly one entity among the first entitiesLen
\* has type Player, so that GetPlayerEntity never returns NULL (and is never
\* dereferenced as NULL).
C20_ExactlyOnePlayer ==
    /\ Cardinality(Players) = 1
    /\ GetPlayerEntity(World) # NULL
    /\ ~crashed

\* -------------------------------------------------------------------- C21
\* A saved level with the player on a patch of ground and an extinguisher
\* lying 5 px from it, held (grabbedEntity its id) or not (-1).
GrabLevel(grabbedEntity) ==
    [exists |-> TRUE,
     data |-> [i \in 0..2 |->
        CASE i = 0 -> PlayerEntity(0, Vec(200, 300), Zero2, TRUE, grabbedEntity, ONE)
          [] i = 1 -> RectEntity(1, Ground, Rect(150, 250, 100, 100))
          [] i = 2 -> ExtinguisherEntity(2, Vec(205, 300), Zero2, TRUE, 0)]]

\* The mouse over the player when the camera is on it.
MouseOnPlayer == cameraOffset

\* TAB, the reload keys, F1, and the right button pressed or held over the
\* player.
GrabInputs ==
    {NoInput,
     [NoInput EXCEPT !.tab = TRUE],
     [NoInput EXCEPT !.f1 = TRUE],
     [NoInput EXCEPT !.f2 = TRUE],
     [NoInput EXCEPT !.r = TRUE],
     [NoInput EXCEPT !.rmbPressed = TRUE, !.rmbDown = TRUE, !.mouse = MouseOnPlayer],
     [NoInput EXCEPT !.rmbDown = TRUE, !.mouse = MouseOnPlayer]}

InitGrab == \E g \in {-1, 2} : Starts(InitGameplayScreen(GrabLevel(g)))

\* The right button is held in a frame only after a frame in which it was
\* down.
NextGrab ==
    \E in \in GrabInputs :
        /\ (in.rmbDown /\ ~in.rmbPressed) => input.rmbDown
        /\ FrameUpTo(in, PlayFrames)

SpecGrab == InitGrab /\ [][NextGrab]_vars

\* Whether id is the id of a live Extinguisher.
HeldInStore(id) ==
    \E j \in 0..(entitiesLen - 1) :
        entities[j].type = Extinguisher /\ entities[j].id = id

\* C21: in every reachable state the player's grabbedEntity is -1 or the
\* id of an Extinguisher in the store, also after the editor's right-button
\* deletion of the held extinguisher and after a reload, so that
\* GetEntity(grabbedEntity) in the Player step never returns NULL.
C21_GrabNeverDangling ==
    /\ ~crashed
    /\ \A i \in Players :
          \/ entities[i].grabbedEntity = -1
          \/ /\ HeldInStore(entities[i].grabbedEntity)
             /\ GetEntity(World, entities[i].grabbedEntity) # NULL

\* -------------------------------------------------------------------- C22
\* C22: whenever currentEntity is not NULL at the start of the editor's
\* text / resize step, it points at an index below entitiesLen, whose slot
\* holds the entity the editor's last click created, also when a deletion,
\* a reload or a TAB out of and back into editing came between the click
\* and the release.
C22_CurrentEntityValid ==
    probe.shaped.did =>
        /\ probe.shaped.at < probe.shaped.len
        /\ probe.handedOut # <<>>
        /\ probe.shaped.id = probe.handedOut[Len(probe.handedOut)]

\* -------------------------------------------------------------------- C23
\* A typing session: TAB with the wheel turned to HelpText in the first
\* frame, a left press placing the help text in the second, then frames in
\* which nothing, one character or a full queue of characters is typed, or
\* ENTER pressed.
TextInputs ==
    {[NoInput EXCEPT !.tab = TRUE, !.wheel = -1],
     [NoInput EXCEPT !.lmbPressed = TRUE, !.lmbDown = TRUE, !.mouse = MouseA],
     [NoInput EXCEPT !.enter = TRUE]}
    \cup {[NoInput EXCEPT !.chars = n] : n \in {0, 1, MaxChars}}

NextText ==
    \E in \in TextInputs :
        /\ in.tab <=> frameID = 0
        /\ in.lmbPressed <=> frameID = 1
        /\ FrameUpTo(in, TextFrames)

SpecText == Init /\ [][NextText]_vars

\* C23: for any number of characters typed while a HelpText is the
\* current entity, the text keeps its terminating NUL inside the 100-byte
\* array: its length never exceeds 99 (and no write goes outside the array).
C23_TextFitsBuffer ==
    /\ \A i \in 0..(entitiesLen - 1) :
          entities[i].type = HelpText => entities[i].textLen <= TEXT_SIZE - 1
    /\ ~crashed

\* -------------------------------------------------------------------- C24
\* C24: between level loads a Fire's fireLeft is within [0, 1] after every
\* frame and never increases from one frame to the next; the entity loop
\* leaves it as it is, and the particle step lowers it by 0.001 (not below
\* 0) for each live RetardantParticle inside the Fire's rectangle that no
\* Obstacle listed before the Fire stops; FireParticles and dead particles
\* do not change it.
C24_FireOnlyBurnsDown ==
    /\ [](/\ \A i \in 0..(entitiesLen - 1) :
                entities[i].type = Fire => entities[i].fireLeft \in 0..ONE
          /\ probe.loop.did =>
                \A i \in DOMAIN probe.loop.before :
                    probe.loop.before[i].type = Fire =>
                        probe.loop.after[i].fireLeft = probe.loop.before[i].fireLeft
          /\ probe.mid.did =>
                \A ii \in DOMAIN probe.mid.entities :
                    probe.mid.entities[ii].type = Fire =>
                        LET stoppedOrNot ==
                                {i \in Slots :
                                    /\ probe.mid.particles[i].lifetime > 0
                                    /\ probe.mid.particles[i].type = RetardantParticle
                                    /\ RectHasPoint(probe.mid.entities[ii].rect,
                                                    probe.mid.particles[i].pos)}
                            dousing ==
                                {i \in stoppedOrNot :
                                    ScanReaches(probe.mid.entities,
                                                probe.mid.particles[i].pos, ii)}
                        IN  entities[ii].fireLeft =
                                max(0, probe.mid.entities[ii].fireLeft
                                          - Cardinality(dousing)))
    /\ [][(~probe'.reloaded /\ ~probe'.died /\ ~probe'.f1.did) =>
              \A i \in 0..(entitiesLen - 1) : \A j \in 0..(entitiesLen' - 1) :
                  (/\ entities[i].type = Fire
                   /\ entities'[j].type = Fire
                   /\ entities'[j].id = entities[i].id) =>
                      entities'[j].fireLeft <= entities[i].fireLeft]_vars

\* C24's case: in one particle step a fire lost 0.001 to a retardant
\* particle, while another live retardant particle inside the fire's
\* rectangle, stopped by an Obstacle listed before the fire, took nothing,
\* and the fire has burnt down over two frames or more.
C24_Witness ==
    /\ ~crashed
    /\ probe.mid.did
    /\ ~probe.died
    /\ \E ii \in DOMAIN probe.mid.entities :
          /\ probe.mid.entities[ii].type = Fire
          /\ entities[ii].fireLeft = probe.mid.entities[ii].fireLeft - 1
          /\ entities[ii].fireLeft < file.data[ii].fireLeft - 1
          /\ \E i \in Slots :
                /\ probe.mid.particles[i].lifetime > 0
                /\ probe.mid.particles[i].type = RetardantParticle
                /\ RectHasPoint(probe.mid.entities[ii].rect, probe.mid.particles[i].pos)
                /\ ~ScanReaches(probe.mid.entities, probe.mid.particles[i].pos, ii)

====
